---- MODULE Spec2Model ----
(***************************************************************************)
(* Model of rs/state_layout/src/utils.rs: do_copy, do_copy_overwrite and   *)
(* mark_readonly_and_hardlink_file, run by concurrent callers over a       *)
(* small file system.  The two function-local statics ON_COW_FS / SAME_FS  *)
(* are process-wide atomics; every atomic access and every file-system     *)
(* call is one step of the caller that performs it.                        *)
(***************************************************************************)
EXTENDS Integers, Sequences, FiniteSets, TLC

\* ---------------------------------------------------------------- bounds
NumProcs == 2          \* concurrent callers
MaxCalls == 2          \* calls made in one behaviour

Procs == 1..NumProcs
Paths == {"a", "b", "c"}
Inodes == 1..Cardinality(Paths)
NoInode == 0
IoKinds == {"PermissionDenied", "StorageFull"}

\* ----------------------------------------------------------------- state
VARIABLES
    ON_COW_FS,      \* static AtomicBool, utils.rs:15
    SAME_FS,        \* static AtomicBool, utils.rs:16
    log,            \* warnings received by the ReplicaLogger, per flag
    fs,             \* directory: path -> inode (NoInode when absent)
    inode,          \* inode -> [content, readonly]
    pc,             \* per caller: the statement it will execute next
    op,             \* per caller: the function it is running
    src, dst,       \* per caller: the arguments of the call
    src_metadata,   \* per caller: the snapshot taken at utils.rs:90
    ret,            \* per caller: the value returned by its last call
    h,              \* per caller: what the current call has done so far
    g               \* what has happened in the whole behaviour

vars == <<ON_COW_FS, SAME_FS, log, fs, inode, pc, op, src, dst,
          src_metadata, ret, h, g>>

\* ------------------------------------------------------- values and errors
NoRet == [tag |-> "none", kind |-> "-", msg |-> <<>>]
OkRet == [tag |-> "Ok", kind |-> "-", msg |-> <<>>]
Err(e) == [tag |-> "Err", kind |-> e.kind, msg |-> e.msg]

\* std::io::Error produced by a primitive
IoErr(k) == [kind |-> k, msg |-> <<"os">>]

\* utils.rs:18-28, the closure on_err: same kind, message with both paths
on_err_other(e, s, d) ==
    [kind |-> "Other", msg |-> <<"failed to copy", s, d>> \o e.msg]
on_err(e, s, d) ==
    [kind |-> e.kind, msg |-> <<"failed to copy", s, d>> \o e.msg]

\* utils.rs:58-66, the translation of FileCloneError::IoError(e)
clone_err_other(e, s, d) ==
    [kind |-> "Other", msg |-> <<"failed to clone", s, d>> \o e.msg]
clone_err(e, s, d) ==
    [kind |-> e.kind, msg |-> <<"failed to clone", s, d>> \o e.msg]

\* ------------------------------------------------------------ file system
NoFile == [content |-> 0, readonly |-> FALSE]
exists(path) == fs[path] # NoInode
nlink(i) == Cardinality({q \in Paths : fs[q] = i})
FreeInode == CHOOSE i \in Inodes :
                /\ nlink(i) = 0
                /\ \A j \in Inodes : nlink(j) = 0 => i <= j

\* directory and inode table after unlinking `path`
Unlinked(path) ==
    LET i == fs[path]
        f == [fs EXCEPT ![path] = NoInode]
    IN  [fs |-> f,
         inode |-> IF i # NoInode /\ nlink(i) = 1
                   THEN [inode EXCEPT ![i] = NoFile] ELSE inode]

\* directory and inode table after creating `d` as a new file equal to `s`
Created(s, d) ==
    [fs |-> [fs EXCEPT ![d] = FreeInode],
     inode |-> [inode EXCEPT ![FreeInode] =
                    [content |-> inode[fs[s]].content, readonly |-> FALSE]]]

\* --------------------------------------------------------------- histories
NoHist == [nClone |-> 0, nCopy |-> 0, cloneTag |-> "none", cloneKind |-> "-",
           copyTag |-> "none", copyKind |-> "-", swapped |-> "none",
           swapOld |-> FALSE, warned |-> 0, lateSame |-> FALSE,
           lateCow |-> FALSE, srcContent |-> 0, dstContent |-> 0,
           entered |-> FALSE, srcInode |-> 0, dstInode |-> 0,
           srcReadonly |-> FALSE, steps |-> <<>>, failedAt |-> "none"]
NoMeta == [readonly |-> FALSE, nlink |-> 0]

Init ==
    /\ ON_COW_FS = TRUE
    /\ SAME_FS = TRUE
    /\ log = [same |-> 0, cow |-> 0]
    /\ fs = [q \in Paths |-> CASE q = "a" -> 1 [] q = "b" -> 2 [] OTHER -> NoInode]
    /\ inode = [i \in Inodes |->
                  CASE i = 1 -> [content |-> 1, readonly |-> FALSE]
                    [] i = 2 -> [content |-> 2, readonly |-> FALSE]
                    [] OTHER -> NoFile]
    /\ pc = [p \in Procs |-> "idle"]
    /\ op = [p \in Procs |-> "none"]
    /\ src = [p \in Procs |-> "a"]
    /\ dst = [p \in Procs |-> "a"]
    /\ src_metadata = [p \in Procs |-> NoMeta]
    /\ ret = [p \in Procs |-> NoRet]
    /\ h = [p \in Procs |-> NoHist]
    /\ g = [calls |-> 0, doCopyCalls |-> 0, totalClone |-> 0, totalCopy |-> 0,
            cloneFailed |-> FALSE, everDFS |-> FALSE, everONS |-> FALSE,
            retSame |-> FALSE, retCow |-> FALSE,
            swapTrue |-> [same |-> 0, cow |-> 0]]

\* ------------------------------------------------------------ collaborators
\* Results a primitive can deliver.  The three-way FileCloneError and the
\* Ok arm are the arms of the match at utils.rs:31-68.
CloneOk == [tag |-> "Ok", e |-> IoErr("-")]
CloneDFS == [tag |-> "DifferentFileSystems", e |-> IoErr("-")]
CloneONS == [tag |-> "OperationNotSupported", e |-> IoErr("-")]
CloneIo(k) == [tag |-> "IoError", e |-> IoErr(k)]
IoOk == [tag |-> "Ok", e |-> IoErr("-")]
IoFail(k) == [tag |-> "Err", e |-> IoErr(k)]

\* ic_sys::fs::clone_file(src, dst), called at utils.rs:31
clone_file(s, d) ==
    IF ~exists(s) THEN {CloneIo("NotFound")}
    ELSE IF exists(d) THEN {CloneIo("AlreadyExists")}
    ELSE {CloneOk, CloneDFS, CloneONS} \cup {CloneIo(k) : k \in IoKinds}

\* ic_sys::fs::copy_file_sparse(src, dst), called at utils.rs:42,55,70
copy_file_sparse(s, d) ==
    IF ~exists(s) THEN {IoFail("NotFound")}
    ELSE IF exists(d) THEN {IoFail("AlreadyExists")}
    ELSE {IoOk} \cup {IoFail(k) : k \in IoKinds}

\* std::fs::remove_file(path), called at utils.rs:79 and utils.rs:108
remove_file(path) ==
    IF ~exists(path) THEN {IoFail("NotFound")}
    ELSE {IoOk} \cup {IoFail(k) : k \in IoKinds}

\* ------------------------------------------------------- the calls' framing
Ops == {"do_copy", "do_copy_overwrite", "mark_readonly_and_hardlink_file"}

\* No other caller is working on a path this call would write, and no
\* other caller is writing a path this call reads: callers serialize the
\* operations that target one destination path.
PathsFree(p, s, d) ==
    \A q \in Procs \ {p} :
        pc[q] # "idle" => /\ dst[q] # d
                          /\ dst[q] # s
                          /\ src[q] # d

\* the history of the behaviour once caller p has returned
Returned(gg, p) ==
    [gg EXCEPT !.retSame = @ \/ h[p].cloneTag = "DifferentFileSystems",
               !.retCow = @ \/ h[p].cloneTag = "OperationNotSupported"]

Return(p, r) ==
    /\ pc' = [pc EXCEPT ![p] = "done"]
    /\ ret' = [ret EXCEPT ![p] = r]

Goto(p, l) ==
    /\ pc' = [pc EXCEPT ![p] = l]
    /\ ret' = ret

\* the first statement of each function
Entry(o) ==
    CASE o = "do_copy" -> "load_cow"
      [] o = "do_copy_overwrite" -> "ow_exists"
      [] o = "mark_readonly_and_hardlink_file" -> "metadata"

\* A caller invokes one of the three functions on existing source s.
\* do_copy requires a destination that does not exist yet.
Call(p) ==
    /\ pc[p] = "idle"
    /\ g.calls < MaxCalls
    /\ \E o \in Ops, s \in Paths, d \in Paths :
        /\ exists(s)
        /\ o = "do_copy" => ~exists(d)
        /\ PathsFree(p, s, d)
        /\ op' = [op EXCEPT ![p] = o]
        /\ src' = [src EXCEPT ![p] = s]
        /\ dst' = [dst EXCEPT ![p] = d]
        /\ pc' = [pc EXCEPT ![p] = Entry(o)]
        /\ h' = [h EXCEPT ![p] =
                    [NoHist EXCEPT !.entered = (o = "do_copy"),
                                   !.lateSame = g.retSame,
                                   !.lateCow = g.retCow,
                                   !.srcInode = fs[s],
                                   !.dstInode = fs[d],
                                   !.srcReadonly = inode[fs[s]].readonly,
                                   !.srcContent = inode[fs[s]].content,
                                   !.dstContent = IF exists(d)
                                                  THEN inode[fs[d]].content
                                                  ELSE 0]]
        /\ g' = [g EXCEPT !.calls = @ + 1,
                          !.doCopyCalls = @ + (IF o = "do_copy" THEN 1 ELSE 0)]
    /\ UNCHANGED <<ON_COW_FS, SAME_FS, log, fs, inode, src_metadata, ret>>

\* ------------------------------------------------------------------ do_copy
\* AtomicBool::load(Relaxed): the value last written to the flag.  A flag
\* only ever goes from true to false, so a stale read by a caller that
\* overlaps the writer is the read of an earlier interleaving; a caller
\* ordered after the writer (same thread, or handed over with
\* synchronization) reads the written value.
load(flag) == flag

\* utils.rs:30, left operand of &&: ON_COW_FS.load(Relaxed)
\* the test of the flag inverted
AfterLoadCow_inverted(v) == IF v THEN "copy" ELSE "load_same"
AfterLoadCow(v) == IF v THEN "load_same" ELSE "copy"
LoadCow(p) ==
    /\ pc[p] = "load_cow"
    /\ Goto(p, AfterLoadCow(load(ON_COW_FS)))
    /\ UNCHANGED <<ON_COW_FS, SAME_FS, log, fs, inode, op, src, dst,
                   src_metadata, h, g>>

\* utils.rs:30, right operand of &&: SAME_FS.load(Relaxed)
\* the test of SAME_FS left out of the condition
AfterLoadSame_ignored(v) == "clone"
\* the caller waiting for the flag to rise again before it goes on
AfterLoadSame_spin(v) == IF v THEN "clone" ELSE "load_same"
AfterLoadSame(v) == IF v THEN "clone" ELSE "copy"
LoadSame(p) ==
    /\ pc[p] = "load_same"
    /\ Goto(p, AfterLoadSame(load(SAME_FS)))
    /\ UNCHANGED <<ON_COW_FS, SAME_FS, log, fs, inode, op, src, dst,
                   src_metadata, h, g>>

\* utils.rs:31-68, the arms of the match on clone_file's result: where the
\* call goes next and, when it returns here, what it returns
\* the two capability arms downgrading each other's flag
clone_arm_crossed(r, s, d) ==
    CASE r.tag = "DifferentFileSystems" -> [next |-> "swap_cow", ret |-> NoRet]
      [] r.tag = "OperationNotSupported" -> [next |-> "swap_same", ret |-> NoRet]
      [] r.tag = "IoError" -> [next |-> "done", ret |-> Err(clone_err(r.e, s, d))]
      [] r.tag = "Ok" -> [next |-> "done", ret |-> OkRet]
\* a generic I/O fault of the clone falling back to the sparse copy
clone_arm_fallback(r, s, d) ==
    CASE r.tag = "DifferentFileSystems" -> [next |-> "swap_same", ret |-> NoRet]
      [] r.tag = "OperationNotSupported" -> [next |-> "swap_cow", ret |-> NoRet]
      [] r.tag = "IoError" -> [next |-> "copy", ret |-> NoRet]
      [] r.tag = "Ok" -> [next |-> "done", ret |-> OkRet]
\* a generic I/O fault of the clone taken for missing reflink support
clone_arm_io_downgrades(r, s, d) ==
    CASE r.tag = "DifferentFileSystems" -> [next |-> "swap_same", ret |-> NoRet]
      [] r.tag = "OperationNotSupported" -> [next |-> "swap_cow", ret |-> NoRet]
      [] r.tag = "IoError" -> [next |-> "swap_cow", ret |-> NoRet]
      [] r.tag = "Ok" -> [next |-> "done", ret |-> OkRet]
clone_arm(r, s, d) ==
    CASE r.tag = "DifferentFileSystems" -> [next |-> "swap_same", ret |-> NoRet]
      [] r.tag = "OperationNotSupported" -> [next |-> "swap_cow", ret |-> NoRet]
      [] r.tag = "IoError" -> [next |-> "done", ret |-> Err(clone_err(r.e, s, d))]
      [] r.tag = "Ok" -> [next |-> "done", ret |-> OkRet]

\* utils.rs:31, ic_sys::fs::clone_file(src, dst) and the match on its result
Clone(p) ==
    /\ pc[p] = "clone"
    /\ \E r \in clone_file(src[p], dst[p]) :
        LET arm == clone_arm(r, src[p], dst[p])
            fsys == IF r.tag = "Ok" THEN Created(src[p], dst[p])
                    ELSE [fs |-> fs, inode |-> inode]
            gg == [g EXCEPT !.totalClone = @ + 1,
                            !.cloneFailed = @ \/ r.tag # "Ok",
                            !.everDFS = @ \/ r.tag = "DifferentFileSystems",
                            !.everONS = @ \/ r.tag = "OperationNotSupported"]
        IN  /\ fs' = fsys.fs
            /\ inode' = fsys.inode
            /\ h' = [h EXCEPT ![p].nClone = @ + 1,
                              ![p].cloneTag = r.tag,
                              ![p].cloneKind = r.e.kind,
                              ![p].steps = Append(@, "clone_file"),
                              ![p].failedAt = IF r.tag = "IoError"
                                              THEN "clone_file" ELSE @]
            /\ pc' = [pc EXCEPT ![p] = arm.next]
            /\ ret' = [ret EXCEPT ![p] = arm.ret]
            /\ g' = IF arm.next = "done" THEN Returned(gg, p) ELSE gg
    /\ UNCHANGED <<ON_COW_FS, SAME_FS, log, op, src, dst, src_metadata>>

\* AtomicBool::swap(val): stores val, returns the previous value
\* fetch_xor in place of swap: the flag is toggled
swap_toggle(cur, val) == [old |-> cur, new |-> ~cur]
\* a plain store whose caller always takes itself for the first
swap_blind(cur, val) == [old |-> TRUE, new |-> val]
swap(cur, val) == [old |-> cur, new |-> val]

\* utils.rs:33, if SAME_FS.swap(false, Relaxed) { warn!(..) }
AfterSwapSame(old) == IF old THEN "warn_same" ELSE "copy"
SwapSame(p) ==
    /\ pc[p] = "swap_same"
    /\ LET s == swap(SAME_FS, FALSE)
       IN  /\ SAME_FS' = s.new
           /\ Goto(p, AfterSwapSame(s.old))
           /\ h' = [h EXCEPT ![p].swapped = "same", ![p].swapOld = s.old]
           /\ g' = [g EXCEPT !.swapTrue.same = @ + (IF s.old THEN 1 ELSE 0)]
    /\ UNCHANGED <<ON_COW_FS, log, fs, inode, op, src, dst, src_metadata>>

\* utils.rs:34-40, warn!(log, "state_manager.state_root spans multiple ..")
WarnSame(p) ==
    /\ pc[p] = "warn_same"
    /\ log' = [log EXCEPT !.same = @ + 1]
    /\ h' = [h EXCEPT ![p].warned = @ + 1]
    /\ Goto(p, "copy")
    /\ UNCHANGED <<ON_COW_FS, SAME_FS, fs, inode, op, src, dst,
                   src_metadata, g>>

\* utils.rs:46, if ON_COW_FS.swap(false, Relaxed) { warn!(..) }
\* the fallback copy made only by the caller that warns
AfterSwapCow_nocopy(old) == IF old THEN "warn_cow" ELSE "done"
AfterSwapCow(old) == IF old THEN "warn_cow" ELSE "copy"
SwapCow(p) ==
    /\ pc[p] = "swap_cow"
    /\ LET s == swap(ON_COW_FS, FALSE)
       IN  /\ ON_COW_FS' = s.new
           /\ Goto(p, AfterSwapCow(s.old))
           /\ h' = [h EXCEPT ![p].swapped = "cow", ![p].swapOld = s.old]
           /\ g' = [g EXCEPT !.swapTrue.cow = @ + (IF s.old THEN 1 ELSE 0)]
    /\ UNCHANGED <<SAME_FS, log, fs, inode, op, src, dst, src_metadata>>

\* utils.rs:47-53, warn!(log, "StateManager runs on a filesystem not ..")
WarnCow(p) ==
    /\ pc[p] = "warn_cow"
    /\ log' = [log EXCEPT !.cow = @ + 1]
    /\ h' = [h EXCEPT ![p].warned = @ + 1]
    /\ Goto(p, "copy")
    /\ UNCHANGED <<ON_COW_FS, SAME_FS, fs, inode, op, src, dst,
                   src_metadata, g>>

\* utils.rs:42,55,70: copy_file_sparse(src, dst).map_err(on_err)?; Ok(())
\* the result of copy_file_sparse dropped instead of propagated with `?`
copy_arm_swallow(r, s, d) == OkRet
copy_arm(r, s, d) ==
    IF r.tag = "Ok" THEN OkRet ELSE Err(on_err(r.e, s, d))

Copy(p) ==
    /\ pc[p] = "copy"
    /\ \E r \in copy_file_sparse(src[p], dst[p]) :
        LET fsys == IF r.tag = "Ok" THEN Created(src[p], dst[p])
                    ELSE [fs |-> fs, inode |-> inode]
        IN  /\ fs' = fsys.fs
            /\ inode' = fsys.inode
            /\ h' = [h EXCEPT ![p].nCopy = @ + 1,
                              ![p].copyTag = r.tag,
                              ![p].copyKind = r.e.kind,
                              ![p].steps = Append(@, "copy_file_sparse"),
                              ![p].failedAt = IF r.tag = "Err"
                                              THEN "copy_file_sparse" ELSE @]
            /\ Return(p, copy_arm(r, src[p], dst[p]))
            /\ g' = Returned([g EXCEPT !.totalCopy = @ + 1], p)
    /\ UNCHANGED <<ON_COW_FS, SAME_FS, log, op, src, dst, src_metadata>>

\* -------------------------------------------------------- do_copy_overwrite
\* utils.rs:78, if dst.exists()
\* the removal of an existing destination left out
AfterExistsOverwrite_skip(e) == "load_cow"
AfterExistsOverwrite(e) == IF e THEN "ow_remove" ELSE "load_cow"
OverwriteExists(p) ==
    /\ pc[p] = "ow_exists"
    /\ LET l == AfterExistsOverwrite(exists(dst[p]))
       IN  /\ Goto(p, l)
           /\ h' = [h EXCEPT ![p].entered = (l = "load_cow")]
           /\ g' = [g EXCEPT !.doCopyCalls =
                                @ + (IF l = "load_cow" THEN 1 ELSE 0)]
    /\ UNCHANGED <<ON_COW_FS, SAME_FS, log, fs, inode, op, src, dst,
                   src_metadata>>

\* utils.rs:79 and utils.rs:108, the path handed to remove_file
\* the source handed to remove_file in place of the destination
RemoveTarget_src(s, d) == s
RemoveTarget(s, d) == d

\* the history of a call after one more primitive call, failed or not
Stepped(hp, name, r) ==
    [hp EXCEPT !.steps = Append(@, name),
               !.failedAt = IF r.tag = "Err" THEN name ELSE @]

\* utils.rs:79-81, std::fs::remove_file(dst)?; then do_copy(log, src, dst)
\* the failure of remove_file wrapped by on_err like a failure of the copy
remove_arm_translated(r, l) ==
    IF r.tag = "Ok" THEN [next |-> l, ret |-> NoRet]
    ELSE [next |-> "done", ret |-> Err(on_err(r.e, "-", "-"))]
\* the failure of remove_file ignored
remove_arm_ignored(r, l) == [next |-> l, ret |-> NoRet]
remove_arm(r, l) ==
    IF r.tag = "Ok" THEN [next |-> l, ret |-> NoRet]
    ELSE [next |-> "done", ret |-> Err(r.e)]

OverwriteRemove(p) ==
    /\ pc[p] = "ow_remove"
    /\ \E r \in remove_file(RemoveTarget(src[p], dst[p])) :
        LET arm == remove_arm(r, "load_cow")
            fsys == IF r.tag = "Ok"
                    THEN Unlinked(RemoveTarget(src[p], dst[p]))
                    ELSE [fs |-> fs, inode |-> inode]
        IN  /\ fs' = fsys.fs
            /\ inode' = fsys.inode
            /\ pc' = [pc EXCEPT ![p] = arm.next]
            /\ ret' = [ret EXCEPT ![p] = arm.ret]
            /\ h' = [h EXCEPT ![p] = [Stepped(@, "remove_file", r) EXCEPT
                                          !.entered = (arm.next = "load_cow")]]
            /\ g' = IF arm.next = "load_cow"
                    THEN [g EXCEPT !.doCopyCalls = @ + 1]
                    ELSE Returned(g, p)
    /\ UNCHANGED <<ON_COW_FS, SAME_FS, log, op, src, dst, src_metadata>>

\* ------------------------------------------ mark_readonly_and_hardlink_file
\* std::fs::metadata results: the snapshot, or a failure
metadata(path) ==
    IF ~exists(path) THEN {IoFail("NotFound")}
    ELSE {IoOk} \cup {IoFail(k) : k \in IoKinds}

\* utils.rs:91, if !src_metadata.permissions().readonly()
\* the source never marked read-only
AfterMetadata_skip(md) == "hl_exists"
\* the permission set again on a source that is already read-only
AfterMetadata_always(md) == "set_permissions"
AfterMetadata(md) == IF ~md.readonly THEN "set_permissions" ELSE "hl_exists"

\* utils.rs:90, let src_metadata = src.metadata()?;
Metadata(p) ==
    /\ pc[p] = "metadata"
    /\ \E r \in metadata(src[p]) :
        IF r.tag = "Ok"
        THEN LET md == [readonly |-> inode[fs[src[p]]].readonly,
                        nlink |-> nlink(fs[src[p]])]
             IN  /\ src_metadata' = [src_metadata EXCEPT ![p] = md]
                 /\ Goto(p, AfterMetadata(md))
                 /\ g' = g
                 /\ h' = [h EXCEPT ![p] = Stepped(@, "metadata", r)]
        ELSE /\ src_metadata' = src_metadata
             /\ Return(p, Err(r.e))
             /\ g' = Returned(g, p)
             /\ h' = [h EXCEPT ![p] = Stepped(@, "metadata", r)]
    /\ UNCHANGED <<ON_COW_FS, SAME_FS, log, fs, inode, op, src, dst>>

\* std::fs::set_permissions results
set_permissions(path) ==
    IF ~exists(path) THEN {IoFail("NotFound")}
    ELSE {IoOk} \cup {IoFail(k) : k \in IoKinds}

\* utils.rs:102-104, permissions.set_readonly(true);
\* std::fs::set_permissions(src, permissions)?;
SetPermissions(p) ==
    /\ pc[p] = "set_permissions"
    /\ \E r \in set_permissions(src[p]) :
        IF r.tag = "Ok"
        THEN /\ inode' = [inode EXCEPT ![fs[src[p]]].readonly = TRUE]
             /\ Goto(p, "hl_exists")
             /\ g' = g
             /\ h' = [h EXCEPT ![p] = Stepped(@, "set_permissions", r)]
        ELSE /\ inode' = inode
             /\ Return(p, Err(r.e))
             /\ g' = Returned(g, p)
             /\ h' = [h EXCEPT ![p] = Stepped(@, "set_permissions", r)]
    /\ UNCHANGED <<ON_COW_FS, SAME_FS, log, fs, op, src, dst,
                   src_metadata>>

\* utils.rs:107, if dst.exists()
\* hard_link attempted without removing an existing destination
AfterExistsHardlink_skip(e) == "hard_link"
AfterExistsHardlink(e) == IF e THEN "hl_remove" ELSE "hard_link"
HardlinkExists(p) ==
    /\ pc[p] = "hl_exists"
    /\ Goto(p, AfterExistsHardlink(exists(dst[p])))
    /\ UNCHANGED <<ON_COW_FS, SAME_FS, log, fs, inode, op, src, dst,
                   src_metadata, h, g>>

\* utils.rs:108, std::fs::remove_file(dst)?;
HardlinkRemove(p) ==
    /\ pc[p] = "hl_remove"
    /\ \E r \in remove_file(RemoveTarget(src[p], dst[p])) :
        LET arm == remove_arm(r, "hard_link")
            fsys == IF r.tag = "Ok"
                    THEN Unlinked(RemoveTarget(src[p], dst[p]))
                    ELSE [fs |-> fs, inode |-> inode]
        IN  /\ fs' = fsys.fs
            /\ inode' = fsys.inode
            /\ pc' = [pc EXCEPT ![p] = arm.next]
            /\ ret' = [ret EXCEPT ![p] = arm.ret]
            /\ h' = [h EXCEPT ![p] = Stepped(@, "remove_file", r)]
            /\ g' = IF arm.next = "done" THEN Returned(g, p) ELSE g
    /\ UNCHANGED <<ON_COW_FS, SAME_FS, log, op, src, dst, src_metadata>>

\* std::fs::hard_link results: the link needs an existing source and a
\* destination that does not exist
hard_link(s, d) ==
    IF ~exists(s) THEN {IoFail("NotFound")}
    ELSE IF exists(d) THEN {IoFail("AlreadyExists")}
    ELSE {IoOk} \cup {IoFail(k) : k \in IoKinds}

\* utils.rs:110, std::fs::hard_link(src, dst)
HardLink(p) ==
    /\ pc[p] = "hard_link"
    /\ \E r \in hard_link(src[p], dst[p]) :
        /\ fs' = IF r.tag = "Ok" THEN [fs EXCEPT ![dst[p]] = fs[src[p]]]
                 ELSE fs
        /\ Return(p, IF r.tag = "Ok" THEN OkRet ELSE Err(r.e))
        /\ g' = Returned(g, p)
        /\ h' = [h EXCEPT ![p] = Stepped(@, "hard_link", r)]
    /\ UNCHANGED <<ON_COW_FS, SAME_FS, log, inode, op, src, dst,
                   src_metadata>>

\* The caller takes the returned value; its frame is gone.
Finish(p) ==
    /\ pc[p] = "done"
    /\ pc' = [pc EXCEPT ![p] = "idle"]
    /\ op' = [op EXCEPT ![p] = "none"]
    /\ src' = [src EXCEPT ![p] = "a"]
    /\ dst' = [dst EXCEPT ![p] = "a"]
    /\ src_metadata' = [src_metadata EXCEPT ![p] = NoMeta]
    /\ ret' = [ret EXCEPT ![p] = NoRet]
    /\ h' = [h EXCEPT ![p] = NoHist]
    /\ UNCHANGED <<ON_COW_FS, SAME_FS, log, fs, inode, g>>

Next == \E p \in Procs :
    \/ Call(p)
    \/ LoadCow(p)
    \/ LoadSame(p)
    \/ Clone(p)
    \/ SwapSame(p)
    \/ WarnSame(p)
    \/ SwapCow(p)
    \/ WarnCow(p)
    \/ Copy(p)
    \/ OverwriteExists(p)
    \/ OverwriteRemove(p)
    \/ Metadata(p)
    \/ SetPermissions(p)
    \/ HardlinkExists(p)
    \/ HardlinkRemove(p)
    \/ HardLink(p)
    \/ Finish(p)

Spec == Init /\ [][Next]_vars

\* ================================================================== claims
Callers(l) == {p \in Procs : pc[p] = l}
Mismatch == {"DifferentFileSystems", "OperationNotSupported"}
Quiet == \A p \in Procs : pc[p] \in {"idle", "done"}
content(path) == inode[fs[path]].content
readonly(path) == inode[fs[path]].readonly

\* C1: both latch flags start true and each is monotonic: no step of any
\* operation, in any interleaving, takes a flag from false back to true.
FlagsNeverRise ==
    [][/\ ~ON_COW_FS => ~ON_COW_FS'
       /\ ~SAME_FS => ~SAME_FS']_vars
StartTrue == ON_COW_FS = TRUE /\ SAME_FS = TRUE
C1_LatchMonotonic == StartTrue /\ FlagsNeverRise

\* a second mismatching caller has swapped a flag that was already false
C1_Witness ==
    \E p \in Procs : /\ h[p].swapped # "none"
                     /\ ~h[p].swapOld
                     /\ pc[p] = "done"

\* C2: per flag, exactly one caller sees the swap return true and that
\* caller alone warns: never two warnings for a flag, every true swap is
\* followed by its one warning, and once a mismatching caller has swapped,
\* one true swap has happened.
WarnedOnce(f, warnPc, swapPc, ever, flag) ==
    /\ g.swapTrue[f] <= 1
    /\ log[f] <= 1
    /\ log[f] + Cardinality(Callers(warnPc)) = g.swapTrue[f]
    /\ (~flag) <=> g.swapTrue[f] = 1
    /\ ever /\ Callers(swapPc) = {} => g.swapTrue[f] = 1
C2_WarnExactlyOnce ==
    /\ WarnedOnce("same", "warn_same", "swap_same", g.everDFS, SAME_FS)
    /\ WarnedOnce("cow", "warn_cow", "swap_cow", g.everONS, ON_COW_FS)
    /\ \A p \in Procs : h[p].warned = 1 <=>
            (h[p].swapped # "none" /\ h[p].swapOld
             /\ pc[p] \notin {"warn_same", "warn_cow"})

\* two callers raced on one flag: one swapped true and warned, one false
C2_Witness ==
    \E p, q \in Procs :
        /\ h[p].swapped = "same" /\ h[p].swapOld /\ h[p].warned = 1
        /\ h[q].swapped = "same" /\ ~h[q].swapOld /\ h[q].warned = 0
        /\ pc[q] = "done"
        /\ log.same = 1

\* C3: once a do_copy whose clone reported a capability mismatch has
\* returned, every do_copy that starts later attempts no clone, warns
\* nothing and makes exactly one sparse copy, and the sink holds exactly
\* one message for that capability (emitted, or about to be by the caller
\* that won the swap).
Late(p) == h[p].lateSame \/ h[p].lateCow
C3_StickyDowngrade ==
    /\ \A p \in Procs : h[p].entered /\ Late(p) =>
            /\ h[p].nClone = 0
            /\ pc[p] \notin {"clone", "swap_same", "swap_cow",
                              "warn_same", "warn_cow"}
            /\ h[p].warned = 0
            /\ pc[p] = "done" => h[p].nCopy = 1
    /\ g.retSame => /\ ~SAME_FS
                    /\ log.same + Cardinality(Callers("warn_same")) = 1
    /\ g.retCow => /\ ~ON_COW_FS
                   /\ log.cow + Cardinality(Callers("warn_cow")) = 1
    /\ Quiet /\ g.retSame => log.same = 1
    /\ Quiet /\ g.retCow => log.cow = 1

\* a do_copy started after an "unsupported" call has copied without cloning
C3_Witness ==
    \E p \in Procs : /\ pc[p] = "done"
                     /\ h[p].entered
                     /\ h[p].lateCow
                     /\ h[p].nCopy = 1
                     /\ h[p].nClone = 0
                     /\ log.cow = 1

\* C4: while no clone attempt has failed, the do_copy calls made so far
\* have performed one clone each and no sparse copy, each has returned Ok,
\* both flags are true and nothing has been warned.
BeforeClone == Callers("load_cow") \cup Callers("load_same") \cup Callers("clone")
C4_ClonePreferred ==
    ~g.cloneFailed =>
        /\ g.totalCopy = 0
        /\ g.totalClone = g.doCopyCalls - Cardinality(BeforeClone)
        /\ ON_COW_FS /\ SAME_FS
        /\ log.same = 0 /\ log.cow = 0
        /\ \A p \in Procs : h[p].entered /\ pc[p] = "done" =>
                /\ ret[p] = OkRet
                /\ h[p].nClone = 1
                /\ h[p].nCopy = 0

\* every call of the behaviour was a do_copy whose clone succeeded
C4_Witness ==
    /\ ~g.cloneFailed
    /\ g.doCopyCalls = MaxCalls
    /\ g.totalClone = MaxCalls
    /\ Quiet

\* C5: a do_copy whose clone failed with FileCloneError::IoError returns
\* at once an error of the fault's kind: no sparse copy, no swap of a
\* flag, no warning.
C5_IoFaultPassesThrough ==
    \A p \in Procs : h[p].cloneTag = "IoError" =>
        /\ pc[p] = "done"
        /\ ret[p].tag = "Err"
        /\ ret[p].kind = h[p].cloneKind
        /\ h[p].nCopy = 0
        /\ h[p].swapped = "none"
        /\ h[p].warned = 0

C5_Witness ==
    \E p \in Procs : /\ h[p].cloneTag = "IoError"
                     /\ ret[p].kind = "PermissionDenied"
                     /\ ret[p].msg = <<"failed to clone", src[p], dst[p], "os">>

\* C6: the flags are independent: a step that changes SAME_FS is the swap
\* of a caller whose clone reported different filesystems and leaves
\* ON_COW_FS alone, a step that changes ON_COW_FS is the swap of a caller
\* whose clone reported unsupported and leaves SAME_FS alone; a flag whose
\* failure mode was never driven is still true.
SwapBy(p, tag, l) == h[p].cloneTag = tag /\ pc[p] = l /\ pc'[p] # l
OnlyMatchingFlag ==
    /\ SAME_FS' # SAME_FS =>
            /\ ON_COW_FS' = ON_COW_FS
            /\ \E p \in Procs : SwapBy(p, "DifferentFileSystems", "swap_same")
    /\ ON_COW_FS' # ON_COW_FS =>
            /\ SAME_FS' = SAME_FS
            /\ \E p \in Procs : SwapBy(p, "OperationNotSupported", "swap_cow")
    /\ \A p \in Procs :
            /\ SwapBy(p, "DifferentFileSystems", pc[p]) => ON_COW_FS' = ON_COW_FS
            /\ SwapBy(p, "OperationNotSupported", pc[p]) => SAME_FS' = SAME_FS
UndrivenFlagTrue ==
    /\ ~g.everONS => ON_COW_FS
    /\ ~g.everDFS => SAME_FS
C6_IndependentFlags == []UndrivenFlagTrue /\ [][OnlyMatchingFlag]_vars

\* only "different filesystems" was driven: SAME_FS fell, ON_COW_FS is true
C6_Witness ==
    /\ g.everDFS /\ ~g.everONS
    /\ ~SAME_FS /\ ON_COW_FS
    /\ Quiet

\* C7: a do_copy whose clone failed with a capability mismatch returns what
\* its fallback sparse copy gives (Ok, or an error of the copy's kind), and
\* every error of do_copy has the kind of a clone I/O fault or of a
\* sparse-copy fault of that call.
C7_MismatchAbsorbed ==
    \A p \in Procs : pc[p] = "done" /\ h[p].entered =>
        /\ h[p].cloneTag \in Mismatch =>
                /\ h[p].nCopy = 1
                /\ h[p].copyTag = "Ok" => ret[p] = OkRet
                /\ h[p].copyTag = "Err" => /\ ret[p].tag = "Err"
                                           /\ ret[p].kind = h[p].copyKind
        /\ ret[p].tag = "Err" =>
                \/ h[p].cloneTag = "IoError" /\ ret[p].kind = h[p].cloneKind
                \/ h[p].copyTag = "Err" /\ ret[p].kind = h[p].copyKind

C7_Witness ==
    \E p \in Procs : /\ pc[p] = "done"
                     /\ h[p].cloneTag = "DifferentFileSystems"
                     /\ h[p].copyTag = "Err"
                     /\ ret[p].kind = "StorageFull"

\* C8: given collaborators that leave no partial file, a do_copy that
\* returns Ok leaves the destination existing, equal in content to the
\* source and a file of its own; one that returns an error leaves no
\* destination; on the clone, the clone-then-fallback and the direct path.
C8_CopyOutcome ==
    \A p \in Procs : pc[p] = "done" /\ h[p].entered =>
        /\ ret[p].tag \in {"Ok", "Err"}
        /\ ret[p].tag = "Ok" => /\ exists(src[p]) /\ exists(dst[p])
                                /\ content(dst[p]) = content(src[p])
                                /\ content(dst[p]) = h[p].srcContent
                                /\ fs[dst[p]] # fs[src[p]]
        /\ ret[p].tag = "Err" => ~exists(dst[p])

\* one caller succeeded through the fallback, the other on the direct path
C8_Witness ==
    \E p, q \in Procs :
        /\ pc[p] = "done" /\ ret[p] = OkRet /\ h[p].cloneTag \in Mismatch
        /\ pc[q] = "done" /\ ret[q] = OkRet /\ h[q].cloneTag = "none"
        /\ h[q].entered
        /\ content(dst[q]) = content(src[q])

\* C9: mark_readonly_and_hardlink_file reaches hard_link only with a
\* read-only source, and after a successful call the destination is the
\* source's inode and the source is read-only.
C9_NoAliasToMutable ==
    \A p \in Procs : op[p] = "mark_readonly_and_hardlink_file" =>
        /\ pc[p] \in {"hl_exists", "hl_remove", "hard_link"} /\ exists(src[p])
                => readonly(src[p])
        /\ pc[p] = "done" /\ ret[p] = OkRet =>
                /\ exists(src[p])
                /\ fs[dst[p]] = fs[src[p]]
                /\ readonly(src[p])
                /\ nlink(fs[src[p]]) >= 2

\* a writable source was marked and linked
C9_Witness ==
    \E p \in Procs : /\ op[p] = "mark_readonly_and_hardlink_file"
                     /\ pc[p] = "done" /\ ret[p] = OkRet
                     /\ ~src_metadata[p].readonly
                     /\ fs[dst[p]] = fs[src[p]]

\* C10: a do_copy_overwrite onto an existing destination of different
\* content that returns Ok leaves the destination equal to the source, and
\* whenever it is inside do_copy the old destination is already gone.
InDoCopy == {"load_cow", "load_same", "clone", "swap_same", "warn_same",
             "swap_cow", "warn_cow", "copy"}
C10_OverwriteReplaces ==
    \A p \in Procs : op[p] = "do_copy_overwrite" =>
        /\ pc[p] \in InDoCopy => ~exists(dst[p])
        /\ /\ pc[p] = "done" /\ ret[p] = OkRet
           /\ h[p].dstContent # 0
           /\ h[p].dstContent # h[p].srcContent
           => /\ exists(dst[p])
              /\ content(dst[p]) = h[p].srcContent
              /\ content(dst[p]) = content(src[p])
              /\ content(dst[p]) # h[p].dstContent

C10_Witness ==
    \E p \in Procs : /\ op[p] = "do_copy_overwrite"
                     /\ pc[p] = "done" /\ ret[p] = OkRet
                     /\ h[p].dstContent = 2
                     /\ h[p].srcContent = 1
                     /\ content(dst[p]) = 1

\* a finished call of mark_readonly_and_hardlink_file
MarkDone(p) == op[p] = "mark_readonly_and_hardlink_file" /\ pc[p] = "done"
Linked(p) == /\ exists(src[p])
             /\ fs[dst[p]] = fs[src[p]]
             /\ readonly(src[p])

\* C11 as stated: a mark_readonly_and_hardlink_file call made on an existing
\* destination (a path other than the source) leaves that path naming the
\* old file when it fails and a hardlink to the read-only source when it
\* succeeds, never absent.
C11_AtomicReplace ==
    \A p \in Procs :
        (MarkDone(p) /\ h[p].dstInode # NoInode /\ src[p] # dst[p]) =>
        /\ exists(dst[p])
        /\ ret[p].tag = "Err" => fs[dst[p]] = h[p].dstInode
        /\ ret[p].tag = "Ok" => Linked(p)

\* C11 as amended: such a call leaves the destination naming a hardlink to
\* the read-only source when it succeeds, naming the old file when it fails
\* at metadata, set_permissions or remove_file, and absent when it fails
\* at hard_link, which runs only after the old destination was removed.
C11_ReplaceNotAtomic ==
    \A p \in Procs : MarkDone(p) /\ h[p].dstInode # NoInode =>
        /\ ret[p].tag = "Ok" => Linked(p)
        /\ ret[p].tag = "Err" =>
                /\ h[p].failedAt \in {"metadata", "set_permissions",
                                      "remove_file", "hard_link"}
                /\ h[p].failedAt # "hard_link" =>
                        /\ fs[dst[p]] = h[p].dstInode
                        /\ nlink(h[p].dstInode) >= 1
                /\ h[p].failedAt = "hard_link" => ~exists(dst[p])

\* the old destination was removed and hard_link failed: the path is gone
C11_Witness ==
    \E p \in Procs : /\ MarkDone(p)
                     /\ src[p] # dst[p]
                     /\ h[p].dstInode # NoInode
                     /\ h[p].failedAt = "hard_link"
                     /\ ~exists(dst[p])
                     /\ exists(src[p])

\* C12: a mark_readonly_and_hardlink_file call that finds its source
\* read-only performs no set_permissions, leaves the source read-only, and
\* goes on to remove an existing destination and to hard_link; it fails
\* only where one of those two steps fails.
FoundReadonly(p) ==
    /\ op[p] = "mark_readonly_and_hardlink_file"
    /\ Len(h[p].steps) >= 1
    /\ h[p].failedAt # "metadata"
    /\ src_metadata[p].readonly
TailSteps(p) ==
    (IF h[p].dstInode # NoInode THEN <<"remove_file">> ELSE <<>>)
        \o <<"hard_link">>
C12_IdempotentImmutability ==
    \A p \in Procs : FoundReadonly(p) =>
        /\ pc[p] # "set_permissions"
        /\ \A i \in 1..Len(h[p].steps) : h[p].steps[i] # "set_permissions"
        /\ exists(src[p]) => readonly(src[p])
        /\ h[p].failedAt \in {"none", "remove_file", "hard_link"}
        /\ pc[p] = "done" /\ h[p].failedAt # "remove_file" =>
                h[p].steps = <<"metadata">> \o TailSteps(p)
        /\ pc[p] = "done" /\ h[p].failedAt = "none" => ret[p] = OkRet

\* a source marked by an earlier call is linked again, over an old file
C12_Witness ==
    \E p \in Procs : /\ FoundReadonly(p)
                     /\ pc[p] = "done" /\ ret[p] = OkRet
                     /\ h[p].steps = <<"metadata", "remove_file", "hard_link">>
                     /\ Linked(p)

\* C13: a do_copy whose swap returned false, another caller having
\* downgraded first, warns nothing, goes to the sparse copy, runs it once
\* and returns its result; so does every call that saw a mismatch.
C13_LoserStillCopies ==
    \A p \in Procs : h[p].swapped # "none" =>
        /\ h[p].cloneTag \in Mismatch
        /\ pc[p] \in {"warn_same", "warn_cow", "copy", "done"}
        /\ ~h[p].swapOld => /\ h[p].warned = 0
                            /\ pc[p] \in {"copy", "done"}
        /\ pc[p] = "done" =>
                /\ h[p].nCopy = 1
                /\ h[p].steps[Len(h[p].steps)] = "copy_file_sparse"
                /\ ret[p] = IF h[p].copyTag = "Ok" THEN OkRet
                            ELSE Err(on_err(IoErr(h[p].copyKind),
                                            src[p], dst[p]))

\* the caller that lost the race on ON_COW_FS has copied and returned Ok
C13_Witness ==
    \E p, q \in Procs :
        /\ h[p].swapped = "cow" /\ ~h[p].swapOld
        /\ pc[p] = "done" /\ ret[p] = OkRet /\ h[p].nCopy = 1
        /\ h[q].swapped = "cow" /\ h[q].swapOld

\* C14: a do_copy call attempts at most one clone and at most one sparse
\* copy, the clone first; a copy follows a clone only after a capability
\* mismatch, and a failed copy ends the call with the copy's error.
DoCopySteps ==
    {<<>>, <<"clone_file">>, <<"copy_file_sparse">>,
     <<"clone_file", "copy_file_sparse">>}
OwnSteps(p) ==
    IF op[p] = "do_copy_overwrite" /\ h[p].dstInode # NoInode
    THEN SubSeq(h[p].steps, 2, Len(h[p].steps))
    ELSE h[p].steps
C14_NoRetry ==
    /\ g.totalClone <= g.doCopyCalls
    /\ g.totalCopy <= g.doCopyCalls
    /\ \A p \in Procs : h[p].entered =>
        /\ h[p].nClone <= 1
        /\ h[p].nCopy <= 1
        /\ OwnSteps(p) \in DoCopySteps
        /\ h[p].nClone = 1 /\ h[p].nCopy = 1 => h[p].cloneTag \in Mismatch
        /\ h[p].nClone = 1 /\ pc[p] = "copy" => h[p].cloneTag \in Mismatch
        /\ h[p].nCopy = 1 => pc[p] = "done"
        /\ h[p].copyTag = "Err" => /\ ret[p].tag = "Err"
                                   /\ h[p].failedAt = "copy_file_sparse"

\* a clone, a mismatch, a failed fallback copy, and the call is over
C14_Witness ==
    \E p \in Procs : /\ h[p].entered /\ pc[p] = "done"
                     /\ h[p].steps = <<"clone_file", "copy_file_sparse">>
                     /\ h[p].copyTag = "Err"
                     /\ ret[p].tag = "Err"

\* C15: do_copy_overwrite calls remove_file only on a destination that
\* exists; when the removal fails the call returns that error untranslated
\* and has not entered do_copy: no clone, no copy, no swap of a flag, no
\* warning, and the destination is still the old file.
Overwrite(p) == op[p] = "do_copy_overwrite"
C15_RemovalFailure ==
    \A p \in Procs : Overwrite(p) =>
        /\ (\E i \in 1..Len(h[p].steps) : h[p].steps[i] = "remove_file")
                => /\ h[p].dstInode # NoInode
                   /\ h[p].steps[1] = "remove_file"
        /\ h[p].dstInode = NoInode => pc[p] # "ow_remove"
        /\ h[p].entered /\ h[p].dstInode # NoInode
                => /\ h[p].steps[1] = "remove_file"
                   /\ h[p].failedAt # "remove_file"
        /\ h[p].failedAt = "remove_file" =>
                /\ pc[p] = "done"
                /\ ret[p].tag = "Err"
                /\ ret[p].kind \in IoKinds
                /\ ret[p].msg = <<"os">>
                /\ ~h[p].entered
                /\ h[p].steps = <<"remove_file">>
                /\ h[p].nClone = 0 /\ h[p].nCopy = 0
                /\ h[p].swapped = "none" /\ h[p].warned = 0
                /\ fs[dst[p]] = h[p].dstInode

C15_Witness ==
    \E p \in Procs : /\ Overwrite(p)
                     /\ h[p].failedAt = "remove_file"
                     /\ ret[p] = Err(IoErr("PermissionDenied"))
                     /\ exists(dst[p])

\* C16: mark_readonly_and_hardlink_file performs metadata, set_permissions
\* (writable source only), remove_file (existing destination only) and
\* hard_link in that order; a step that fails is the last one performed
\* and its error is returned as it is; after a failure of metadata or
\* set_permissions the destination is what it was and no link was made.
Mark(p) == op[p] = "mark_readonly_and_hardlink_file"
IsPrefix(s, w) == Len(s) <= Len(w) /\ s = SubSeq(w, 1, Len(s))
MarkSteps(p) ==
    <<"metadata">>
        \o (IF src_metadata[p].readonly THEN <<>> ELSE <<"set_permissions">>)
        \o TailSteps(p)
C16_StepOrder ==
    \A p \in Procs : Mark(p) =>
        /\ IsPrefix(h[p].steps, MarkSteps(p))
        /\ pc[p] = "done" =>
                /\ h[p].steps # <<>>
                /\ h[p].failedAt \in {"none", h[p].steps[Len(h[p].steps)]}
                /\ h[p].failedAt = "none" <=> ret[p] = OkRet
                /\ h[p].failedAt = "none" => h[p].steps = MarkSteps(p)
        /\ h[p].failedAt # "none" =>
                /\ pc[p] = "done"
                /\ ret[p].tag = "Err"
                /\ ret[p].msg = <<"os">>
        /\ h[p].failedAt \in {"metadata", "set_permissions"} =>
                /\ fs[dst[p]] = h[p].dstInode
                /\ fs[src[p]] = h[p].srcInode

\* set_permissions failed with an old destination in place: it is kept
C16_Witness ==
    \E p \in Procs : /\ Mark(p) /\ pc[p] = "done"
                     /\ h[p].steps = <<"metadata", "set_permissions">>
                     /\ h[p].failedAt = "set_permissions"
                     /\ h[p].dstInode # NoInode
                     /\ fs[dst[p]] = h[p].dstInode
                     /\ src[p] # dst[p]

\* C17: every file with more than one hardlink is read-only, so the
\* snapshot of a source that mark_readonly_and_hardlink_file finds
\* writable shows exactly one link: debug_assert_eq!(nlink, 1) holds.
FoundWritable(p) ==
    /\ Mark(p)
    /\ h[p].steps # <<>>
    /\ h[p].failedAt # "metadata"
    /\ ~src_metadata[p].readonly
C17_LinkCountAssertion ==
    /\ \A i \in Inodes : nlink(i) > 1 => inode[i].readonly
    /\ \A i \in Inodes : nlink(i) = 0 => inode[i] = NoFile
    /\ \A p \in Procs : FoundWritable(p) => src_metadata[p].nlink = 1

\* with a shared file around, a call finds another source writable
C17_Witness ==
    \E p \in Procs, i \in Inodes :
        /\ nlink(i) = 2
        /\ FoundWritable(p)
        /\ fs[src[p]] # i
        /\ src_metadata[p].nlink = 1

\* C18: a flag is false only after a clone attempt failed with its own
\* mismatch and the failing caller swapped it; a warning for a flag exists
\* only while that flag is false; and the only steps that change a flag
\* are those two swaps: no clone result, no copy, no removal and no step
\* of mark_readonly_and_hardlink_file does.
Swaps == {"swap_same", "swap_cow"}
FalseForCause ==
    /\ ~SAME_FS => g.everDFS /\ g.swapTrue.same >= 1
    /\ ~ON_COW_FS => g.everONS /\ g.swapTrue.cow >= 1
    /\ log.same > 0 \/ Callers("warn_same") # {} => ~SAME_FS
    /\ log.cow > 0 \/ Callers("warn_cow") # {} => ~ON_COW_FS
    /\ \A p \in Procs :
        /\ h[p].swapped = "same" => h[p].cloneTag = "DifferentFileSystems"
        /\ h[p].swapped = "cow" => h[p].cloneTag = "OperationNotSupported"
        /\ pc[p] = "swap_same" => h[p].cloneTag = "DifferentFileSystems"
        /\ pc[p] = "swap_cow" => h[p].cloneTag = "OperationNotSupported"
        /\ Mark(p) \/ ~h[p].entered => h[p].swapped = "none"
OnlySwapsWrite ==
    \A p \in Procs :
        pc'[p] # pc[p] /\ pc[p] \notin Swaps =>
            /\ ON_COW_FS' = ON_COW_FS
            /\ SAME_FS' = SAME_FS
C18_FalseOnlyByMismatch == []FalseForCause /\ [][OnlySwapsWrite]_vars

\* one flag fell by its mismatch; a generic clone fault left the other true
C18_Witness ==
    \E p \in Procs : /\ h[p].cloneTag = "IoError"
                     /\ ~SAME_FS /\ ON_COW_FS
                     /\ log.same = 1
                     /\ ~g.everONS

\* C19: when any of the three operations returns on distinct source and
\* destination paths, the source path names the file it named at the call,
\* with the same content; no step changes the content of a file that
\* stays linked, and the only change of a permission bit is from writable
\* to read-only, by the set_permissions step of a
\* mark_readonly_and_hardlink_file call on its source.
SourceKept ==
    \A p \in Procs : pc[p] = "done" /\ src[p] # dst[p] =>
        /\ exists(src[p])
        /\ fs[src[p]] = h[p].srcInode
        /\ content(src[p]) = h[p].srcContent
        /\ h[p].srcReadonly => readonly(src[p])
OnlyMarkedReadonly ==
    \A i \in Inodes : nlink(i) > 0 /\ nlink(i)' > 0 =>
        /\ inode'[i].content = inode[i].content
        /\ inode'[i].readonly # inode[i].readonly =>
                /\ ~inode[i].readonly
                /\ \E p \in Procs : /\ Mark(p)
                                    /\ pc[p] = "set_permissions"
                                    /\ pc'[p] = "hl_exists"
                                    /\ fs[src[p]] = i
Step(p) ==
    \/ LoadCow(p)
    \/ LoadSame(p)
    \/ Clone(p)
    \/ SwapSame(p)
    \/ WarnSame(p)
    \/ SwapCow(p)
    \/ WarnCow(p)
    \/ Copy(p)
    \/ OverwriteExists(p)
    \/ OverwriteRemove(p)
    \/ Metadata(p)
    \/ SetPermissions(p)
    \/ HardlinkExists(p)
    \/ HardlinkRemove(p)
    \/ HardLink(p)

FairSpec == Spec /\ \A p \in Procs : WF_vars(Step(p))

\* the number of statements a call can still execute from a statement
Rank(l) ==
    CASE l \in {"idle", "done"} -> 0
      [] l \in {"copy", "hard_link"} -> 1
      [] l \in {"warn_same", "warn_cow", "hl_remove"} -> 2
      [] l \in {"swap_same", "swap_cow", "hl_exists"} -> 3
      [] l \in {"clone", "set_permissions"} -> 4
      [] l \in {"load_same", "metadata"} -> 5
      [] l = "load_cow" -> 6
      [] l = "ow_remove" -> 7
      [] l = "ow_exists" -> 8

\* C20: a caller inside a call always has a step of its own that brings it
\* nearer to its return, whatever the other callers have done to the latch
\* and the files, and every step it takes does so: no loop and no wait, so
\* under weak fairness of its own steps every call returns.
Running(p) == pc[p] \notin {"idle", "done"}
Advance(p) == Step(p) /\ Rank(pc'[p]) < Rank(pc[p])
NeverWaits == \A p \in Procs : Running(p) => ENABLED Advance(p)
StepsDescend ==
    \A p \in Procs : Running(p) /\ (pc'[p] # pc[p] \/ h'[p] # h[p])
                        => Rank(pc'[p]) < Rank(pc[p])
C20_Termination == []NeverWaits /\ [][StepsDescend]_vars

\* the same, stated as the liveness property it implies under FairSpec
EveryCallReturns == \A p \in Procs : Running(p) ~> pc[p] = "done"

\* a caller is past its clone while the other has just downgraded a flag
C20_Witness ==
    \E p, q \in Procs :
        /\ p # q
        /\ pc[p] = "done" /\ h[p].swapped # "none" /\ ~h[p].swapOld
        /\ Running(q) /\ h[q].swapped # "none" /\ h[q].swapOld

====
